---- MODULE Spec2Model ----
(***************************************************************************)
(* A model of swedbank2ynab.py: the conversion of a Swedbank CSV export    *)
(* into a YNAB CSV (Date,Payee,Memo,Amount).                               *)
(*                                                                         *)
(* Texts are sequences of characters; a character is a one-letter string,  *)
(* except the few named ones below (a non-ASCII letter, raw bytes).  The   *)
(* input of a run is the byte content of the input file and the command    *)
(* line arguments; everything else is computed from them as main() does.   *)
(***************************************************************************)
EXTENDS Integers, Sequences, FiniteSets, TLC

----------------------------------------------------------------------------
(* Characters and bytes.                                                   *)

\* The letter o-umlaut of "Bokfoeringsdag" as a decoded character.
OUML == "U+00F6"
\* The byte order mark as a decoded character.
BOMCHAR == "U+FEFF"
\* Its UTF-8 encoding is the two bytes C3 B6, its cp1252/latin-1 encoding F6.
BC3 == "xC3"
BB6 == "xB6"
BF6 == "xF6"
\* The three bytes of a UTF-8 byte order mark.
BEF == "xEF"
BBB == "xBB"
BBF == "xBF"
\* A byte that cp1252 leaves undefined.
B81 == "x81"
\* The replacement character of errors="replace".
REPLCHAR == "U+FFFD"
NL == "\n"

HighBytes == {BC3, BB6, BF6, BEF, BBB, BBF, B81}

Digits == {"0", "1", "2", "3", "4", "5", "6", "7", "8", "9"}

DigitVal(c) ==
  CASE c = "0" -> 0 [] c = "1" -> 1 [] c = "2" -> 2 [] c = "3" -> 3
    [] c = "4" -> 4 [] c = "5" -> 5 [] c = "6" -> 6 [] c = "7" -> 7
    [] c = "8" -> 8 [] c = "9" -> 9

DigitChar(n) ==
  CASE n = 0 -> "0" [] n = 1 -> "1" [] n = 2 -> "2" [] n = 3 -> "3"
    [] n = 4 -> "4" [] n = 5 -> "5" [] n = 6 -> "6" [] n = 7 -> "7"
    [] n = 8 -> "8" [] n = 9 -> "9"

\* The no-break space, as a decoded character.
NBSP == "U+00A0"

\* str.isspace() on the characters of the model.
IsSpace(c) == c \in {" ", "\t", NL, "\r", NBSP}

----------------------------------------------------------------------------
(* Python's str and list operations, on sequences.                         *)

Slice(s, a, b) == IF a > b THEN << >> ELSE SubSeq(s, a, b)

\* s[from:]: from is a 0-based index.
Drop(s, n) == Slice(s, n + 1, Len(s))

\* s[:n]
Take(s, n) == Slice(s, 1, IF n < Len(s) THEN n ELSE Len(s))

AllIn(s, S) == \A k \in 1..Len(s) : s[k] \in S

\* needle == hay[p : p + len(needle)], p a 1-based position.
MatchAt(needle, hay, p) ==
  /\ p + Len(needle) - 1 <= Len(hay)
  /\ \A k \in 1..Len(needle) : hay[p + k - 1] = needle[k]

\* needle in hay
Contains(needle, hay) ==
  \E p \in 1..(Len(hay) - Len(needle) + 1) : MatchAt(needle, hay, p)

\* s.count(c) for a single character c.
Count(s, c) == Cardinality({k \in 1..Len(s) : s[k] = c})

RECURSIVE Flatten(_)
\* "".join(parts), by halves.
Flatten(parts) ==
  IF parts = << >> THEN << >>
  ELSE IF Len(parts) = 1 THEN parts[1]
  ELSE LET h == Len(parts) \div 2 IN
       Flatten(SubSeq(parts, 1, h)) \o Flatten(SubSeq(parts, h + 1, Len(parts)))

RECURSIVE Join(_, _)
\* sep.join(parts)
Join(sep, parts) ==
  IF parts = << >> THEN << >>
  ELSE IF Len(parts) = 1 THEN parts[1]
  ELSE parts[1] \o sep \o Join(sep, Tail(parts))

\* s.split(c) for a single character c: always at least one part.
SplitOn(s, c) ==
  LET at == SelectSeq([k \in 1..Len(s) |-> k], LAMBDA k : s[k] = c)
      from(j) == IF j = 1 THEN 1 ELSE at[j - 1] + 1
      to(j) == IF j = Len(at) + 1 THEN Len(s) ELSE at[j] - 1
  IN [j \in 1..(Len(at) + 1) |-> Slice(s, from(j), to(j))]

\* str.splitlines(): the line breaks of the model are "\n" only; a final
\* line break opens no further line, and the empty text has no line.
SplitLines(s) ==
  IF s = << >> THEN << >>
  ELSE IF s[Len(s)] = NL THEN SplitOn(Slice(s, 1, Len(s) - 1), NL)
  ELSE SplitOn(s, NL)

RECURSIVE LStrip(_)
LStrip(s) == IF s # << >> /\ IsSpace(Head(s)) THEN LStrip(Tail(s)) ELSE s

RECURSIVE RStrip(_)
RStrip(s) ==
  IF s # << >> /\ IsSpace(s[Len(s)]) THEN RStrip(Slice(s, 1, Len(s) - 1)) ELSE s

\* s.strip()
Strip(s) == RStrip(LStrip(s))

RECURSIVE Remove(_, _)
\* s.replace(c, "")
Remove(s, c) ==
  IF s = << >> THEN << >>
  ELSE IF Head(s) = c THEN Remove(Tail(s), c)
  ELSE << Head(s) >> \o Remove(Tail(s), c)

\* s.replace(c, d) for single characters.
Replace(s, c, d) == [k \in 1..Len(s) |-> IF s[k] = c THEN d ELSE s[k]]

RECURSIVE NatOf(_)
\* int(ds) for a sequence of digits.
NatOf(ds) ==
  IF ds = << >> THEN 0
  ELSE 10 * NatOf(Slice(ds, 1, Len(ds) - 1)) + DigitVal(ds[Len(ds)])

RECURSIVE DigitsOf(_)
\* str(n) for a natural number.
DigitsOf(n) ==
  IF n < 10 THEN << DigitChar(n) >>
  ELSE DigitsOf(n \div 10) \o << DigitChar(n % 10) >>

\* Zero-padding to a width: "%02d", "%04d".
ZPad(ds, w) == IF Len(ds) >= w THEN ds ELSE [k \in 1..(w - Len(ds)) |-> "0"] \o ds

----------------------------------------------------------------------------
(* SWEDBANK_COLUMNS and YNAB_HEADER.                                       *)

Produkt        == << "P","r","o","d","u","k","t" >>
Bokforingsdag  == << "B","o","k","f",OUML,"r","i","n","g","s","d","a","g" >>
Transaktionsdag == << "T","r","a","n","s","a","k","t","i","o","n","s","d","a","g" >>
Valutadag      == << "V","a","l","u","t","a","d","a","g" >>
Referens       == << "R","e","f","e","r","e","n","s" >>
Beskrivning    == << "B","e","s","k","r","i","v","n","i","n","g" >>
Belopp         == << "B","e","l","o","p","p" >>

YNAB_HEADER ==
  << << "D","a","t","e" >>, << "P","a","y","e","e" >>,
     << "M","e","m","o" >>, << "A","m","o","u","n","t" >> >>

----------------------------------------------------------------------------
(* Results of a function that may raise.                                   *)

Ok(v)    == [ok |-> TRUE, val |-> v, exc |-> "none"]
Raise(e) == [ok |-> FALSE, val |-> << >>, exc |-> e]

\* An optional text: Python's None, or a str.
None    == [some |-> FALSE, text |-> << >>]
Some(t) == [some |-> TRUE, text |-> t]

----------------------------------------------------------------------------
(* find_header_index                                                       *)

HeaderLike(line) ==
  Contains(Belopp, line) /\ (Contains(Beskrivning, line) \/ Contains(Referens, line))

RECURSIVE header_scan(_, _)
\* The for loop of find_header_index from the 0-based index i on.
header_scan(lines, i) ==
  IF i >= Len(lines) THEN 0
  ELSE IF HeaderLike(lines[i + 1]) THEN i
  ELSE header_scan(lines, i + 1)

RECURSIVE header_scan_last(_, _)
header_scan_last(lines, i) ==
  IF i >= Len(lines) THEN 0
  ELSE LET later == header_scan_last(lines, i + 1) IN
       IF later # 0 THEN later ELSE IF HeaderLike(lines[i + 1]) THEN i ELSE 0

find_header_index_last(lines) == header_scan_last(lines, 0)

find_header_index(lines) == header_scan(lines, 0)

----------------------------------------------------------------------------
(* sniff_delimiter                                                         *)

\* What csv.Sniffer().sniff(sample, delimiters=",;") can answer: a delimiter
\* that occurs in the sample, or csv.Error ("Could not determine delimiter");
\* a sample with neither delimiter always gives csv.Error.
SnifferAnswers(sample) ==
  {d \in {",", ";"} : Count(sample, d) > 0} \cup {"csv.Error"}

\* The except branch: the heuristic on the header line of the sample.
sniff_fallback(sample) ==
  LET ls == SplitLines(sample) IN
  IF ls = << >> THEN Raise("IndexError")
  ELSE Ok(IF Count(ls[1], ";") >= Count(ls[1], ",") THEN ";" ELSE ",")

\* sniff_delimiter, given the answer of the Sniffer.
sniff_delimiter(sample, answer) ==
  IF answer = "csv.Error" THEN sniff_fallback(sample) ELSE Ok(answer)

----------------------------------------------------------------------------
(* decimal.Decimal: the constructor from a str, and format(d, ".2f").       *)
(* A Decimal is a sign, a coefficient (its digits, as Python keeps them)   *)
(* and an exponent, or a NaN or an infinity.                               *)

Lower(c) ==
  CASE c = "A" -> "a" [] c = "D" -> "d" [] c = "E" -> "e" [] c = "F" -> "f"
    [] c = "I" -> "i" [] c = "N" -> "n" [] c = "O" -> "o" [] c = "S" -> "s"
    [] c = "T" -> "t" [] c = "U" -> "u" [] c = "Y" -> "y"
    [] OTHER -> c

LowerAll(s) == [k \in 1..Len(s) |-> Lower(s[k])]

RECURSIVE StripZeros(_)
\* A coefficient without its leading zeros ("0" for zero).
StripZeros(ds) ==
  IF Len(ds) > 1 /\ Head(ds) = "0" THEN StripZeros(Tail(ds))
  ELSE IF ds = << >> THEN << "0" >> ELSE ds

Finite(sign, coeff, exp) ==
  [kind |-> "finite", sign |-> sign, coeff |-> StripZeros(coeff), exp |-> exp,
   diag |-> << >>]
Special(kind, sign, diag) ==
  [kind |-> kind, sign |-> sign, coeff |-> << "0" >>, exp |-> 0, diag |-> diag]

\* [-+]?\d+ : an exponent.
IsExponent(t) ==
  LET u == IF t # << >> /\ Head(t) \in {"-", "+"} THEN Tail(t) ELSE t
  IN u # << >> /\ AllIn(u, Digits)

ExponentOf(t) ==
  IF Head(t) = "-" THEN 0 - NatOf(Tail(t))
  ELSE IF Head(t) = "+" THEN NatOf(Tail(t)) ELSE NatOf(t)

\* The numeric branch of the Decimal grammar, after the sign:
\*   (?=\d|\.\d)\d*(\.\d*)?(E[-+]?\d+)?
DecimalNumber(sign, t) ==
  LET ep  == SplitOn(t, "e")
      man == ep[1]
      dp  == SplitOn(man, ".")
      int == dp[1]
      frac == IF Len(dp) = 2 THEN dp[2] ELSE << >>
  IN IF /\ Len(ep) <= 2
        /\ Len(dp) <= 2
        /\ AllIn(int, Digits) /\ AllIn(frac, Digits)
        /\ int \o frac # << >>
        /\ (Len(ep) = 2 => IsExponent(ep[2]))
     THEN Ok(Finite(sign, int \o frac,
                    (IF Len(ep) = 2 THEN ExponentOf(ep[2]) ELSE 0) - Len(frac)))
     ELSE Raise("InvalidOperation")

\* Decimal(s): surrounding whitespace and underscores are dropped, letters
\* are read in either case (str.lower() on the letters of the model).
DecimalOf(s) ==
  LET t    == LowerAll(Remove(Strip(s), "_"))
      sign == IF t # << >> /\ Head(t) = "-" THEN 1 ELSE 0
      u    == IF t # << >> /\ Head(t) \in {"-", "+"} THEN Tail(t) ELSE t
  IN IF u \in {<< "i","n","f" >>, << "i","n","f","i","n","i","t","y" >>}
     THEN Ok(Special("inf", sign, << >>))
     ELSE IF MatchAt(<< "n","a","n" >>, u, 1) /\ AllIn(Drop(u, 3), Digits)
     THEN Ok(Special("nan", sign, Drop(u, 3)))
     ELSE IF MatchAt(<< "s","n","a","n" >>, u, 1) /\ AllIn(Drop(u, 4), Digits)
     THEN Ok(Special("snan", sign, Drop(u, 4)))
     ELSE DecimalNumber(sign, u)

RECURSIVE Increment(_)
\* The digits of n + 1 from the digits of n.
Increment(ds) ==
  IF ds = << >> THEN << "1" >>
  ELSE IF ds[Len(ds)] = "9" THEN Increment(Slice(ds, 1, Len(ds) - 1)) \o << "0" >>
  ELSE Slice(ds, 1, Len(ds) - 1) \o << DigitChar(DigitVal(ds[Len(ds)]) + 1) >>

Zeros(n) == [k \in 1..n |-> "0"]

\* The coefficient of d rounded to `places` fraction digits, ROUND_HALF_EVEN
\* (the rounding of the default context, which format() uses).
Quantized(d, places) ==
  IF d.exp >= 0 - places THEN StripZeros(d.coeff \o Zeros(d.exp + places))
  ELSE LET k      == 0 - d.exp - places
           padded == ZPad(d.coeff, k)
           kept   == StripZeros(Slice(padded, 1, Len(padded) - k))
           rest   == Slice(padded, Len(padded) - k + 1, Len(padded))
           first  == DigitVal(rest[1])
           tail0  == AllIn(Tail(rest), {"0"})
           odd    == DigitVal(kept[Len(kept)]) % 2 = 1
           up     == first > 5 \/ (first = 5 /\ (~tail0 \/ odd))
       IN IF up THEN Increment(kept) ELSE kept

\* format(d, ".2f")
FormatFixed2(d) ==
  LET s == IF d.sign = 1 THEN << "-" >> ELSE << >> IN
  IF d.kind = "inf" THEN s \o << "I","n","f","i","n","i","t","y" >>
  ELSE IF d.kind = "nan" THEN s \o << "N","a","N" >> \o d.diag
  ELSE IF d.kind = "snan" THEN s \o << "s","N","a","N" >> \o d.diag
  ELSE LET q == ZPad(Quantized(d, 2), 3)
       IN s \o Slice(q, 1, Len(q) - 2) \o << "." >> \o Slice(q, Len(q) - 1, Len(q))

----------------------------------------------------------------------------
(* parse_decimal                                                           *)

decimal_text_keep_dots(s) ==
  LET t == Remove(Replace(Strip(s), NBSP, " "), " ") IN
  IF Count(t, ",") > 0 THEN Replace(t, ",", ".") ELSE t

\* The separator rewriting of parse_decimal, before Decimal() reads the text.
decimal_text(s) ==
  LET t == Remove(Replace(Strip(s), NBSP, " "), " ") IN
  IF Count(t, ",") > 0 /\ Count(t, ".") > 0 THEN Replace(Remove(t, "."), ",", ".")
  ELSE IF Count(t, ",") > 0 /\ Count(t, ".") = 0 THEN Replace(t, ",", ".")
  ELSE t

\* parse_decimal(s) for a str s (its callers never pass None).
parse_decimal(s) ==
  LET r == DecimalOf(decimal_text(s)) IN
  IF r.ok THEN r ELSE Raise("ValueError")

----------------------------------------------------------------------------
(* A regular expression matcher for the patterns of _strptime and of       *)
(* parse_date: a pattern is a sequence of elements, an element a sequence  *)
(* of alternatives in the order the regex tries them, an alternative a     *)
(* sequence of character classes.                                          *)

ClassesMatchAt(alt, s, p) ==
  /\ p + Len(alt) - 1 <= Len(s)
  /\ \A k \in 1..Len(alt) : s[p + k - 1] \in alt[k]

RECURSIVE RegexMatch(_, _, _)
RECURSIVE RegexAlts(_, _, _, _)

\* The first match of pat in s from position p, with backtracking:
\* the text of every element and the position after the match.
RegexMatch(pat, s, p) ==
  IF pat = << >> THEN [ok |-> TRUE, parts |-> << >>, end |-> p]
  ELSE RegexAlts(Head(pat), Tail(pat), s, p)

RegexAlts(alts, rest, s, p) ==
  IF alts = << >> THEN [ok |-> FALSE, parts |-> << >>, end |-> p]
  ELSE LET a == Head(alts)
           r == RegexMatch(rest, s, p + Len(a))
       IN IF ClassesMatchAt(a, s, p) /\ r.ok
          THEN [ok |-> TRUE,
                parts |-> << Slice(s, p, p + Len(a) - 1) >> \o r.parts,
                end |-> r.end]
          ELSE RegexAlts(Tail(alts), rest, s, p)

D09 == Digits
D19 == Digits \ {"0"}
Lit(c) == << << {c} >> >>

\* %Y: \d\d\d\d
ReY == << << D09, D09, D09, D09 >> >>
\* %m: 1[0-2]|0[1-9]|[1-9]
Rem == << << {"1"}, {"0","1","2"} >>, << {"0"}, D19 >>, << D19 >> >>
\* %d: 3[0-1]|[1-2]\d|0[1-9]|[1-9]| [1-9]
Red == << << {"3"}, {"0","1"} >>, << {"1","2"}, D09 >>, << {"0"}, D19 >>,
          << D19 >>, << {" "}, D19 >> >>
\* %H: 2[0-3]|[0-1]\d|\d
ReH == << << {"2"}, {"0","1","2","3"} >>, << {"0","1"}, D09 >>, << D09 >> >>
\* %M: [0-5]\d|\d
ReM == << << {"0","1","2","3","4","5"}, D09 >>, << D09 >> >>
\* %S: 6[0-1]|[0-5]\d|\d
ReS == << << {"6"}, {"0","1"} >>, << {"0","1","2","3","4","5"}, D09 >>, << D09 >> >>
\* A blank of the format: \s+ , the longest run first.
ReWs(n) == [k \in 1..n |-> [j \in 1..(n - k + 1) |-> {" ", "\t", NL, "\r", NBSP}]]

\* The five formats of parse_date, for a text of length n.
fmts(n) ==
  << << ReY, Lit("-"), Rem, Lit("-"), Red >>,
     << ReY, Lit("-"), Rem, Lit("-"), Red, ReWs(n), ReH, Lit(":"), ReM, Lit(":"), ReS >>,
     << ReY, Lit("-"), Rem, Lit("-"), Red, ReWs(n), ReH, Lit(":"), ReM >>,
     << ReY, Lit("/"), Rem, Lit("/"), Red >>,
     << ReY, Rem, Red >> >>

\* Where the year, month, day and second stand in a format (0: not there).
fmt_groups ==
  << [Y |-> 1, m |-> 3, d |-> 5, S |-> 0],
     [Y |-> 1, m |-> 3, d |-> 5, S |-> 11],
     [Y |-> 1, m |-> 3, d |-> 5, S |-> 0],
     [Y |-> 1, m |-> 3, d |-> 5, S |-> 0],
     [Y |-> 1, m |-> 2, d |-> 3, S |-> 0] >>

IsLeap(y) == y % 4 = 0 /\ (y % 100 # 0 \/ y % 400 = 0)

DaysIn(y, m) ==
  IF m = 2 THEN (IF IsLeap(y) THEN 29 ELSE 28)
  ELSE IF m \in {4, 6, 9, 11} THEN 30 ELSE 31

\* datetime.strptime(s, fmts[f]): the date, or ValueError when the format
\* does not match, text is left over, or the fields are no date.
strptime(s, f) ==
  LET r == RegexMatch(fmts(Len(s))[f], s, 1)
      g == fmt_groups[f]
  IN IF ~r.ok \/ r.end # Len(s) + 1 THEN Raise("ValueError")
     ELSE LET y   == NatOf(r.parts[g.Y])
              m   == NatOf(r.parts[g.m])
              d   == NatOf(Remove(r.parts[g.d], " "))
              sec == IF g.S = 0 THEN 0 ELSE NatOf(r.parts[g.S])
          IN IF y >= 1 /\ d <= DaysIn(y, m) /\ sec <= 59
             THEN Ok([year |-> y, month |-> m, day |-> d])
             ELSE Raise("ValueError")

\* date.strftime("%Y-%m-%d"): the C library's %Y does not pad the year.
strftime(dt) ==
  DigitsOf(dt.year) \o << "-" >> \o ZPad(DigitsOf(dt.month), 2)
    \o << "-" >> \o ZPad(DigitsOf(dt.day), 2)

\* re.search(r"(\d{4})[-/](\d{2})[-/](\d{2})", s): the leftmost match.
DateShape ==
  << << << D09, D09, D09, D09 >> >>, << << {"-", "/"} >> >>, << << D09, D09 >> >>,
     << << {"-", "/"} >> >>, << << D09, D09 >> >> >>

date_search(s) ==
  IF \E p \in 1..Len(s) : RegexMatch(DateShape, s, p).ok
  THEN LET p == CHOOSE q \in 1..Len(s) :
                  /\ RegexMatch(DateShape, s, q).ok
                  /\ \A j \in 1..(q - 1) : ~RegexMatch(DateShape, s, j).ok
           m == RegexMatch(DateShape, s, p)
       IN Ok(m.parts[1] \o << "-" >> \o m.parts[3] \o << "-" >> \o m.parts[5])
  ELSE Raise("ValueError")

RECURSIVE try_fmts(_, _)
\* The for loop of parse_date from format f on, then the regex.
try_fmts(s, f) ==
  IF f > Len(fmt_groups) THEN date_search(s)
  ELSE LET r == strptime(s, f) IN
       IF r.ok THEN Ok(strftime(r.val)) ELSE try_fmts(s, f + 1)

\* parse_date(s): None has no strip().
parse_date(s) ==
  IF ~s.some THEN Raise("AttributeError") ELSE try_fmts(Strip(s.text), 1)

----------------------------------------------------------------------------
(* clean_text                                                              *)

RECURSIVE collapse(_)
\* re.sub(r"\s+", " ", s)
collapse(s) ==
  IF s = << >> THEN << >>
  ELSE IF IsSpace(Head(s)) THEN << " " >> \o collapse(LStrip(s))
  ELSE << Head(s) >> \o collapse(Tail(s))

clean_text(s) == IF ~s.some THEN << >> ELSE collapse(Strip(s.text))

----------------------------------------------------------------------------
(* The codecs read_text_file_smart names, on the bytes of the model: an    *)
(* ASCII byte is its character, the other bytes are HighBytes.             *)

Continuation == {BB6, BBB, BBF, B81}

\* The character of a two-byte UTF-8 sequence C3 xx.
Utf8Two(b) == IF b = BB6 THEN OUML ELSE "U+00C0..U+00FF"

\* The character of a three-byte UTF-8 sequence EF xx yy.
Utf8Three(b, c) == IF b = BBB /\ c = BBF THEN BOMCHAR ELSE "U+F000..U+FFFF"

ByteAt(bs, k) == IF k >= 1 /\ k <= Len(bs) THEN bs[k] ELSE ""

\* The byte at k continues a sequence a lead byte opened.
Continues(bs, k) ==
  /\ ByteAt(bs, k) \in Continuation
  /\ \/ ByteAt(bs, k - 1) \in {BC3, BEF}
     \/ ByteAt(bs, k - 2) = BEF /\ ByteAt(bs, k - 1) \in Continuation

\* The byte at k opens a well-formed sequence.
Opens(bs, k) ==
  \/ bs[k] \notin HighBytes
  \/ bs[k] = BC3 /\ ByteAt(bs, k + 1) \in Continuation
  \/ bs[k] = BEF /\ ByteAt(bs, k + 1) \in Continuation
                 /\ ByteAt(bs, k + 2) \in Continuation

\* What the byte at k gives: a character, nothing (it continues a
\* sequence), or the replacement character of an ill-formed sequence.
Utf8At(bs, k) ==
  IF Opens(bs, k)
  THEN (IF bs[k] = BC3 THEN Utf8Two(bs[k + 1])
        ELSE IF bs[k] = BEF THEN Utf8Three(bs[k + 1], bs[k + 2])
        ELSE bs[k])
  ELSE IF Continues(bs, k) THEN "" ELSE REPLCHAR

\* bytes.decode("utf-8", errors): errors is "strict" or "replace".
utf8(bs, errors) ==
  IF errors = "strict" /\ \E k \in 1..Len(bs) : ~Opens(bs, k) /\ ~Continues(bs, k)
  THEN Raise("UnicodeDecodeError")
  ELSE Ok(SelectSeq([k \in 1..Len(bs) |-> Utf8At(bs, k)], LAMBDA c : c # ""))

\* utf-8-sig: a leading byte order mark is dropped.
utf8sig(bs) ==
  IF MatchAt(<< BEF, BBB, BBF >>, bs, 1) THEN utf8(Drop(bs, 3), "strict")
  ELSE utf8(bs, "strict")

Latin1Char(b) ==
  CASE b = BF6 -> OUML [] b = BC3 -> "U+00C3" [] b = BB6 -> "U+00B6"
    [] b = BEF -> "U+00EF" [] b = BBB -> "U+00BB" [] b = BBF -> "U+00BF"
    [] b = B81 -> "U+0081" [] OTHER -> b

\* cp1252 has no character for the byte 81.
cp1252(bs) ==
  IF \E k \in 1..Len(bs) : bs[k] = B81 THEN Raise("UnicodeDecodeError")
  ELSE Ok([k \in 1..Len(bs) |-> Latin1Char(bs[k])])

latin1(bs) == Ok([k \in 1..Len(bs) |-> Latin1Char(bs[k])])

ascii(bs) ==
  IF \E k \in 1..Len(bs) : bs[k] \in HighBytes THEN Raise("UnicodeDecodeError")
  ELSE Ok(bs)

KnownEncodings == {"utf-8-sig", "utf-8", "cp1252", "iso-8859-1", "ascii"}

\* f.read() of a file opened with the encoding enc.
decode(bs, enc) ==
  CASE enc = "utf-8-sig" -> utf8sig(bs)
    [] enc = "utf-8" -> utf8(bs, "strict")
    [] enc = "cp1252" -> cp1252(bs)
    [] enc = "iso-8859-1" -> latin1(bs)
    [] enc = "ascii" -> ascii(bs)

\* The list of encodings read_text_file_smart tries: "" stands for None
\* (both are false in `if preferred`).
encodings(preferred) ==
  (IF preferred # "" THEN << preferred >> ELSE << >>)
    \o << "utf-8-sig", "utf-8", "cp1252", "iso-8859-1" >>

----------------------------------------------------------------------------
(* csv.DictReader over the text from the header line on.  The texts of the *)
(* model hold no quote character, so a record is a line and a field is    *)
(* what stands between two delimiters.                                     *)

\* csv.reader on one line: an empty line is the empty record.
csv_fields(line, delim) == IF line = << >> THEN << >> ELSE SplitOn(line, delim)

\* DictReader.fieldnames: the first record, None when there is no line.
reader_fieldnames(datalines, delim) ==
  IF datalines = << >> THEN [some |-> FALSE, names |-> << >>]
  ELSE [some |-> TRUE, names |-> csv_fields(datalines[1], delim)]

\* dict(zip(fieldnames, record)), the missing values None (restval); what a
\* longer record holds more goes under the key None, which nothing reads.
reader_row(names, fields) ==
  [k \in {names[j] : j \in 1..Len(names)} |->
     LET last == CHOOSE j \in 1..Len(names) :
                   names[j] = k /\ \A h \in (j + 1)..Len(names) : names[h] # k
     IN IF last <= Len(fields) THEN Some(fields[last]) ELSE None]

RECURSIVE reader_rows(_, _, _)
\* The rows DictReader yields for the lines after the header: an empty
\* record is skipped.
reader_rows(names, datalines, delim) ==
  IF datalines = << >> THEN << >>
  ELSE LET f == csv_fields(Head(datalines), delim)
           rest == reader_rows(names, Tail(datalines), delim)
       IN IF f = << >> THEN rest ELSE << reader_row(names, f) >> \o rest

----------------------------------------------------------------------------
(* convert_rows: the body of its loop, for one row.                        *)

\* r.get(key)
Get(r, key) == IF key \in DOMAIN r THEN r[key] ELSE None

\* bool(x) of an optional text.
Truthy(x) == x.some /\ x.text # << >>

\* str(r.get("Belopp", "0")): the default stands in only for an absent key.
amount_text(r) ==
  IF Belopp \notin DOMAIN r THEN << "0" >>
  ELSE IF r[Belopp].some THEN r[Belopp].text ELSE << "N","o","n","e" >>

memo_of_always_referens(referens, beskrivning, produkt, include_product_in_memo) ==
  LET parts ==
        (IF referens # << >> THEN << referens >> ELSE << >>)
        \o (IF include_product_in_memo /\ produkt # << >>
              THEN << << "[" >> \o produkt \o << "]" >> >> ELSE << >>)
  IN Join(<< " ", "|", " " >>, parts)

\* " | ".join(p for p in memo_parts if p)
memo_of(referens, beskrivning, produkt, include_product_in_memo) ==
  LET parts ==
        (IF referens # << >> /\ referens # beskrivning
           THEN << referens >> ELSE << >>)
        \o (IF include_product_in_memo /\ produkt # << >>
              THEN << << "[" >> \o produkt \o << "]" >> >> ELSE << >>)
  IN Join(<< " ", "|", " " >>, SelectSeq(parts, LAMBDA q : q # << >>))

\* The try block: the YNAB row, or the exception that skips the row.
convert_row(r, date_field, payee_field, include_product_in_memo) ==
  LET date_raw == IF Truthy(Get(r, date_field)) THEN Get(r, date_field)
                  ELSE Get(r, Bokforingsdag)
      date     == parse_date(date_raw)
      payee    == clean_text(IF Truthy(Get(r, payee_field))
                               THEN Get(r, payee_field) ELSE Some(<< >>))
      referens    == clean_text(Get(r, Referens))
      beskrivning == clean_text(Get(r, Beskrivning))
      produkt     == clean_text(Get(r, Produkt))
      amount   == parse_decimal(amount_text(r))
  IN IF ~date.ok THEN Raise(date.exc)
     ELSE IF ~amount.ok THEN Raise(amount.exc)
     ELSE Ok(<< date.val, payee,
                memo_of(referens, beskrivning, produkt, include_product_in_memo),
                FormatFixed2(amount.val) >>)

----------------------------------------------------------------------------
(* csv.writer(out_f).writerow(row): the excel dialect.                     *)

RECURSIVE double_quotes(_)
double_quotes(f) ==
  IF f = << >> THEN << >>
  ELSE IF Head(f) = "\"" THEN << "\"", "\"" >> \o double_quotes(Tail(f))
  ELSE << Head(f) >> \o double_quotes(Tail(f))

\* QUOTE_MINIMAL: a field is quoted when it holds the delimiter, the quote
\* character or a character of the line terminator.
csv_field(f) ==
  IF \E k \in 1..Len(f) : f[k] \in {",", "\"", "\r", NL}
  THEN << "\"" >> \o double_quotes(f) \o << "\"" >>
  ELSE f

csv_line(row) ==
  Join(<< "," >>, [k \in 1..Len(row) |-> csv_field(row[k])]) \o << "\r", NL >>

----------------------------------------------------------------------------
(* The state of a run of main().                                           *)

VARIABLES
  args,        \* the parsed command line: input is the file `bytes` stands for
  bytes,       \* the content of the input file
  pc,          \* where main() stands
  encIdx,      \* read_text_file_smart: the encoding being tried (1-based)
  inOpen,      \* input file handles open now
  inOpened,    \* input file handles opened so far
  raw,         \* the decoded text
  lines,       \* raw.splitlines()
  hdr_idx,     \* find_header_index(lines)
  delim,       \* the sniffed delimiter
  fieldnames,  \* reader.fieldnames
  rows,        \* the Source Rows the reader yields
  i,           \* convert_rows: the rows consumed
  out,         \* convert_rows: the YNAB rows so far
  stderr,      \* what was printed to the diagnostic stream
  out_f,       \* the output handle: "none", "stdout" or "file"
  close,       \* whether the finally clause closes out_f
  closed,      \* the output handles the program closed
  written,     \* the text written to out_f
  w,           \* the writer: the lines written
  exc,         \* the exception that ended the run, "none" otherwise
  dparts,      \* a decimal text under test: how it was put together
  dtext,       \* a decimal text under test
  dres         \* parse_decimal(dtext), once computed

runVars == << args, bytes, pc, encIdx, inOpen, inOpened, raw, lines, hdr_idx,
              delim, fieldnames, rows, i, out, stderr, out_f, close, closed,
              written, w, exc >>
decVars == << dparts, dtext, dres >>
vars == << runVars, decVars >>

----------------------------------------------------------------------------
(* read_text_file_smart, an attempt at a time.                             *)

\* The for loop has an encoding left to try.
Trying == encIdx <= Len(encodings(args.encoding))

\* open(path, "r", encoding=enc, newline=""), or the binary open of the
\* last resort: an unknown encoding name is a LookupError and no handle.
OpenInput ==
  /\ pc = "load_open"
  /\ IF Trying /\ encodings(args.encoding)[encIdx] \notin KnownEncodings
     THEN /\ pc' = "crashed"
          /\ exc' = "LookupError"
          /\ UNCHANGED << inOpen, inOpened >>
     ELSE /\ pc' = "load_read"
          /\ inOpen' = inOpen + 1
          /\ inOpened' = inOpened + 1
          /\ UNCHANGED exc
  /\ UNCHANGED << args, bytes, encIdx, raw, lines, hdr_idx, delim, fieldnames,
                  rows, i, out, stderr, out_f, close, closed, written, w, decVars >>

\* The input file cannot be opened (not found, no permission).
InputIOError ==
  /\ pc = "load_open"
  /\ pc' = "crashed"
  /\ exc' = "OSError"
  /\ UNCHANGED << args, bytes, encIdx, inOpen, inOpened, raw, lines, hdr_idx,
                  delim, fieldnames, rows, i, out, stderr, out_f, close, closed,
                  written, w, decVars >>

\* f.read() inside the with block, which closes the handle either way.
ReadInput ==
  /\ pc = "load_read"
  /\ inOpen' = inOpen - 1
  /\ LET r == IF Trying THEN decode(bytes, encodings(args.encoding)[encIdx])
              ELSE utf8(bytes, "replace")
     IN IF r.ok
        THEN /\ raw' = r.val
             /\ pc' = "locate"
             /\ UNCHANGED encIdx
        ELSE /\ encIdx' = encIdx + 1
             /\ pc' = "load_open"
             /\ UNCHANGED raw
  /\ UNCHANGED << args, bytes, inOpened, lines, hdr_idx, delim, fieldnames,
                  rows, i, out, stderr, out_f, close, closed, written, w, exc,
                  decVars >>

----------------------------------------------------------------------------
(* main(): header, delimiter, reader, required columns.                    *)

LocateHeader ==
  /\ pc = "locate"
  /\ lines' = SplitLines(raw)
  /\ hdr_idx' = find_header_index(lines')
  /\ pc' = "sniff"
  /\ UNCHANGED << args, bytes, encIdx, inOpen, inOpened, raw, delim, fieldnames,
                  rows, i, out, stderr, out_f, close, closed, written, w, exc,
                  decVars >>

\* "\n".join(lines[hdr_idx: hdr_idx + 10] if len(lines) > hdr_idx else lines)
sniff_sample(ls, h) ==
  Join(<< NL >>, IF Len(ls) > h THEN Take(Drop(ls, h), 10) ELSE ls)

Sniff ==
  /\ pc = "sniff"
  /\ \E answer \in SnifferAnswers(sniff_sample(lines, hdr_idx)) :
       LET r == sniff_delimiter(sniff_sample(lines, hdr_idx), answer) IN
       IF r.ok
       THEN /\ delim' = r.val
            /\ pc' = "reader"
            /\ UNCHANGED exc
       ELSE /\ pc' = "crashed"
            /\ exc' = r.exc
            /\ UNCHANGED delim
  /\ UNCHANGED << args, bytes, encIdx, inOpen, inOpened, raw, lines, hdr_idx,
                  fieldnames, rows, i, out, stderr, out_f, close, closed,
                  written, w, decVars >>

needed_no_payee(a) == {a.date_field, Belopp}

\* needed = {args.date_field, "Belopp"} plus args.payee_field when given.
needed(a) ==
  {a.date_field, Belopp} \cup (IF a.payee_field # << >> THEN {a.payee_field} ELSE {})

\* [c for c in needed if c not in reader.fieldnames], as a set.
missing_columns(a, names) ==
  {c \in needed(a) : \A j \in 1..Len(names) : names[j] # c}

\* The reader is made and the required columns are looked up: sys.exit()
\* with the message when one is missing.
CheckColumns ==
  /\ pc = "reader"
  /\ LET datalines == Drop(lines, hdr_idx)
         fn == reader_fieldnames(datalines, delim)
     IN /\ fieldnames' = fn
        /\ IF ~fn.some
           THEN /\ pc' = "crashed"
                /\ exc' = "TypeError"
                /\ UNCHANGED << rows, stderr >>
           ELSE IF missing_columns(args, fn.names) # {}
           THEN /\ pc' = "fatal"
                /\ exc' = "SystemExit"
                /\ stderr' = Append(stderr,
                     [kind |-> "fatal", missing |-> missing_columns(args, fn.names),
                      found |-> fn.names, error |-> "SystemExit"])
                /\ UNCHANGED rows
           ELSE /\ pc' = "convert"
                /\ rows' = reader_rows(fn.names, Tail(datalines), delim)
                /\ UNCHANGED << exc, stderr >>
  /\ UNCHANGED << args, bytes, encIdx, inOpen, inOpened, raw, lines, hdr_idx,
                  delim, i, out, out_f, close, closed, written, w, decVars >>

----------------------------------------------------------------------------
(* convert_rows, a row at a time.                                          *)

Message(kind, e) == [kind |-> kind, missing |-> {}, found |-> << >>, error |-> e]

\* One pass of the for loop: the row is appended to out, or a warning is
\* printed and the loop goes on.
convert_step_stop(outv, errv, r, a) ==
  LET c == convert_row(r, a.date_field, a.payee_field, a.product_in_memo) IN
  IF c.ok THEN [out |-> Append(outv, c.val), stderr |-> errv]
  ELSE [out |-> << >>, stderr |-> Append(errv, Message("warning", c.exc))]

convert_step(outv, errv, r, a) ==
  LET c == convert_row(r, a.date_field, a.payee_field, a.product_in_memo) IN
  IF c.ok THEN [out |-> Append(outv, c.val), stderr |-> errv]
  ELSE [out |-> outv, stderr |-> Append(errv, Message("warning", c.exc))]

ConvertRow ==
  /\ pc = "convert"
  /\ i < Len(rows)
  /\ LET n == convert_step(out, stderr, rows[i + 1], args) IN
       /\ out' = n.out
       /\ stderr' = n.stderr
  /\ i' = i + 1
  /\ UNCHANGED << args, bytes, pc, encIdx, inOpen, inOpened, raw, lines, hdr_idx,
                  delim, fieldnames, rows, out_f, close, closed, written, w, exc,
                  decVars >>

----------------------------------------------------------------------------
(* main(): the output.                                                     *)

\* args.output == "-" or args.output.lower() == "stdout"
is_stdout(o) == o = << "-" >> \/ LowerAll(o) = << "s","t","d","o","u","t" >>

\* convert_rows has returned; out_f is sys.stdout or the opened file.
OpenOutput ==
  /\ pc = "convert"
  /\ i = Len(rows)
  /\ IF is_stdout(args.output)
     THEN out_f' = "stdout" /\ close' = FALSE
     ELSE out_f' = "file" /\ close' = TRUE
  /\ pc' = "write"
  /\ UNCHANGED << args, bytes, encIdx, inOpen, inOpened, raw, lines, hdr_idx,
                  delim, fieldnames, rows, i, out, stderr, closed, written, w,
                  exc, decVars >>

\* The named output file cannot be opened for writing.
OutputIOError ==
  /\ pc = "convert"
  /\ i = Len(rows)
  /\ ~is_stdout(args.output)
  /\ pc' = "crashed"
  /\ exc' = "OSError"
  /\ UNCHANGED << args, bytes, encIdx, inOpen, inOpened, raw, lines, hdr_idx,
                  delim, fieldnames, rows, i, out, stderr, out_f, close, closed,
                  written, w, decVars >>

\* The finally clause: `if close: out_f.close()`.
finally_close_always(c, f, cl) == cl \cup {f}

finally_close(c, f, cl) == IF c THEN cl \cup {f} ELSE cl

WriteHeader ==
  /\ pc = "write"
  /\ w = 0
  /\ written' = written \o csv_line(YNAB_HEADER)
  /\ w' = 1
  /\ UNCHANGED << args, bytes, pc, encIdx, inOpen, inOpened, raw, lines, hdr_idx,
                  delim, fieldnames, rows, i, out, stderr, out_f, close, closed,
                  exc, decVars >>

WriteRow ==
  /\ pc = "write"
  /\ w >= 1
  /\ w <= Len(out)
  /\ written' = written \o csv_line(out[w])
  /\ w' = w + 1
  /\ UNCHANGED << args, bytes, pc, encIdx, inOpen, inOpened, raw, lines, hdr_idx,
                  delim, fieldnames, rows, i, out, stderr, out_f, close, closed,
                  exc, decVars >>

\* A write raises (the disk is full, the stream cannot encode a character):
\* the finally clause runs and the exception ends the run.
WriteFails ==
  /\ pc = "write"
  /\ w <= Len(out)
  /\ closed' = finally_close(close, out_f, closed)
  /\ pc' = "crashed"
  /\ exc' = "OSError"
  /\ UNCHANGED << args, bytes, encIdx, inOpen, inOpened, raw, lines, hdr_idx,
                  delim, fieldnames, rows, i, out, stderr, out_f, close, written,
                  w, decVars >>

\* Every row is written: the finally clause runs and main() returns.
Finish ==
  /\ pc = "write"
  /\ w = Len(out) + 1
  /\ closed' = finally_close(close, out_f, closed)
  /\ pc' = "done"
  /\ UNCHANGED << args, bytes, encIdx, inOpen, inOpened, raw, lines, hdr_idx,
                  delim, fieldnames, rows, i, out, stderr, out_f, close, written,
                  w, exc, decVars >>

----------------------------------------------------------------------------
(* The inputs of a run: command lines and input files.                     *)

\* The rows in an input file, at most.
MaxRows == 2
\* The lines of an input file put together from fragments, at most.
MaxLines == 2

\* The defaults of the argument parser.
DefaultArgs ==
  [output |-> << "-" >>, date_field |-> Bokforingsdag,
   payee_field |-> Beskrivning, product_in_memo |-> FALSE, encoding |-> ""]

HeaderFull ==
  << Produkt, Bokforingsdag, Transaktionsdag, Referens, Beskrivning, Belopp >>
HeaderNoBelopp ==
  << Produkt, Bokforingsdag, Transaktionsdag, Referens, Beskrivning >>
HeaderBare == << Referens, Belopp >>

\* Data records, their fields in the order of HeaderFull.
RowPlain == << << "K", "o", "r", "t" >>, << "2", "0", "2", "4", "-", "0", "3", "-", "0", "5" >>, << "2", "0", "2", "4", "-", "0", "3", "-", "0", "4" >>, << "I", "C", "A" >>, << "I", "C", "A" >>, << "-", "1", "2", ",", "5", "0" >> >>
RowMemo == << <<  >>, << "2", "0", "2", "4", "0", "3", "0", "5" >>, <<  >>, << " ", "H", "y", "r", "a", " ", " ", "m", "a", "r", "s" >>, << "H", "y", "r", "a" >>, << "1", ".", "2", "3", "4", ",", "5", "6" >> >>
RowNaN == << << "K", "o", "r", "t" >>, << "2", "0", "2", "4", "/", "0", "3", "/", "0", "5" >>, << "2", "0", "2", "4", "-", "0", "3", "-", "0", "4" >>, << "A" >>, << "B" >>, << "N", "a", "N" >> >>
RowBadAmount == << << "K", "o", "r", "t" >>, << "2", "0", "2", "4", "-", "0", "3", "-", "0", "5" >>, << "2", "0", "2", "4", "-", "0", "3", "-", "0", "4" >>, << "A" >>, << "A" >>, << "a", "b", "c" >> >>
RowShort == << << "K", "o", "r", "t" >>, << "2", "0", "2", "4", "-", "0", "3", "-", "0", "5" >>, << "2", "0", "2", "4", "-", "0", "3", "-", "0", "4" >>, << "A" >>, << "B" >> >>
RowBadDate == << << "K", "o", "r", "t" >>, << "5", " ", "m", "a", "r", "s" >>, <<  >>, << "A" >>, << "B" >>, << "1", ",", "0", "0" >> >>
RowRegex == << <<  >>, << "2", "0", "2", "4", "-", "1", "3", "-", "4", "5" >>, << "x", "2", "0", "2", "4", "/", "0", "1", "/", "0", "2" >>, <<  >>, << "B" >>, << "1", "e", "3" >> >>
RowBlank == <<  >>
RowLong == << << "K", "o", "r", "t" >>, << "2", "0", "2", "4", "-", "0", "3", "-", "0", "5", " ", "1", "0", ":", "1", "1" >>, << "2", "0", "2", "4", "-", "0", "3", "-", "0", "4" >>, << "A", ",", " ", "B" >>, << "B" >>, << "2", ".", "6", "7", "5" >>, << "e", "x", "t", "r", "a" >> >>

RowSamples ==
  {RowPlain, RowMemo, RowNaN, RowBadAmount, RowShort, RowBadDate, RowRegex,
   RowBlank, RowLong}

\* The metadata line Swedbank puts before the header.
Preamble == << "*", " ", "T", "r", "a", "n", "s", "a", "k", "t", "i", "o", "n", "e", "r" >>

SeqsUpTo(S, n) == UNION {[1..k -> S] : k \in 0..n}

\* The text of a file: records of fields, joined by the delimiter d.
FileText(records, d) ==
  Join(<< NL >>, [k \in 1..Len(records) |-> Join(<< d >>, records[k])])

EncodeChars(text, enc) ==
  Flatten([k \in 1..Len(text) |->
             IF text[k] = OUML
             THEN (IF enc = "cp1252" THEN << BF6 >> ELSE << BC3, BB6 >>)
             ELSE << text[k] >>])

\* The bytes of a text saved as utf-8, utf-8-sig or cp1252.
Encode(text, enc) ==
  (IF enc = "utf-8-sig" THEN << BEF, BBB, BBF >> ELSE << >>) \o EncodeChars(text, enc)

\* Files of data rows under the full header, and the options of the mapping.
RowFiles ==
  {Encode(FileText(pre \o << HeaderFull >> \o rs, ";"), "utf-8") :
     pre \in {<< >>, << << Preamble >> >>}, rs \in SeqsUpTo(RowSamples, MaxRows)}

RowArgs ==
  {[DefaultArgs EXCEPT !.date_field = f[1], !.payee_field = f[2],
                       !.product_in_memo = m] :
     f \in {<< Bokforingsdag, Beskrivning >>, << Transaktionsdag, Referens >>},
     m \in BOOLEAN}

\* Files whose lines are put together from labels and delimiters.
FragmentLines ==
  {a \o b : a \in {<< >>, Belopp, Referens, << ";" >>},
            b \in {<< >>, Belopp, Beskrivning, << "," >>}}
LineFiles ==
  {Encode(Join(<< NL >>, ls) \o end, "utf-8") :
     ls \in SeqsUpTo(FragmentLines, MaxLines), end \in {<< >>, << NL >>}}

\* Files in the encodings of the bank, with and without a byte no codec but
\* iso-8859-1 takes, and the options of the loader and of the output.
CodecFiles ==
  {Encode(FileText(<< h, RowPlain, RowBadAmount >>, ";"), enc) \o junk :
     h \in {HeaderFull, HeaderNoBelopp, HeaderBare},
     enc \in {"utf-8", "utf-8-sig", "cp1252"}, junk \in {<< >>, << B81 >>}}

CodecArgs ==
  {[DefaultArgs EXCEPT !.output = o, !.encoding = e] :
     o \in {<< "-" >>, << "s","t","d","o","u","t" >>, << "S","T","D","O","U","T" >>,
            << "o","u","t",".","c","s","v" >>},
     e \in {"", "utf-8", "cp1252", "ascii", "bogus"}}

NoResult == Raise("unset")
NoParts == [sign |-> << >>, groups |-> << >>, tsep |-> << >>, dsep |-> << >>,
            frac |-> << >>]

RunState(a, b, p) ==
  /\ args = a
  /\ bytes = b
  /\ pc = p
  /\ encIdx = 1
  /\ inOpen = 0
  /\ inOpened = 0
  /\ raw = << >>
  /\ lines = << >>
  /\ hdr_idx = 0
  /\ delim = ""
  /\ fieldnames = [some |-> FALSE, names |-> << >>]
  /\ rows = << >>
  /\ i = 0
  /\ out = << >>
  /\ stderr = << >>
  /\ out_f = "none"
  /\ close = FALSE
  /\ closed = {}
  /\ written = << >>
  /\ w = 0
  /\ exc = "none"

\* main() is entered.
Start(a, b) ==
  /\ RunState(a, b, "load_open")
  /\ dparts = NoParts
  /\ dtext = << >>
  /\ dres = NoResult

Init ==
  \/ \E a \in RowArgs, b \in RowFiles : Start(a, b)
  \/ \E b \in LineFiles : Start(DefaultArgs, b)
  \/ \E a \in CodecArgs, b \in CodecFiles : Start(a, b)

Next ==
  \/ OpenInput
  \/ InputIOError
  \/ ReadInput
  \/ LocateHeader
  \/ Sniff
  \/ CheckColumns
  \/ ConvertRow
  \/ OpenOutput
  \/ OutputIOError
  \/ WriteHeader
  \/ WriteRow
  \/ WriteFails
  \/ Finish

Spec == Init /\ [][Next]_vars

----------------------------------------------------------------------------
(* parse_decimal on its own, on amounts written the ways the claim names:  *)
(* a sign, groups of digits with or without a thousands separator, and a   *)
(* fraction after a decimal separator.                                     *)

\* The groups of digits of an integer part, at most.
MaxGroups == 2

FirstGroups == {<< "0" >>, << "1" >>, << "1","2" >>, << "1","2","3" >>}
LaterGroups == [1..3 -> {"0", "5"}]
Fractions == {f \in SeqsUpTo({"0", "5"}, 2) : f # << >>}

DecimalParts ==
  {[sign |-> sg, groups |-> << g >> \o rest, tsep |-> t, dsep |-> d, frac |-> f] :
     sg \in {<< >>, << "-" >>}, g \in FirstGroups \ {<< "0" >>},
     rest \in SeqsUpTo(LaterGroups, MaxGroups - 1),
     t \in {<< >>, << "." >>, << "," >>, << " " >>, << NBSP >>},
     d \in {<< "," >>, << "." >>}, f \in Fractions}
  \cup
  {[sign |-> sg, groups |-> << g >> \o rest, tsep |-> << >>, dsep |-> << >>,
    frac |-> << >>] :
     sg \in {<< >>, << "-" >>}, g \in FirstGroups,
     rest \in SeqsUpTo(LaterGroups, MaxGroups - 1)}

\* The amount as the bank writes it.
DecimalText(p) == p.sign \o Join(p.tsep, p.groups) \o p.dsep \o p.frac

InitDecimal ==
  /\ RunState(DefaultArgs, << >>, "idle")
  /\ \E p \in DecimalParts :
       /\ p.tsep # p.dsep
       /\ (Len(p.groups) = 1 => p.tsep = << >>)
       /\ dparts = p
       /\ dtext = DecimalText(p)
  /\ dres = NoResult

ParseDecimal ==
  /\ pc = "idle"
  /\ dres.exc = "unset"
  /\ dres' = parse_decimal(dtext)
  /\ UNCHANGED << runVars, dparts, dtext >>

NextDecimal == ParseDecimal

SpecDecimal == InitDecimal /\ [][NextDecimal]_vars

----------------------------------------------------------------------------
(* C4.                                                                     *)

\* d is the number whose digits are ds, the last `scale` of them after the
\* decimal point, with the sign sg.
IsNumber(d, sg, ds, scale) ==
  /\ d.kind = "finite"
  /\ (d.sign = 1) = (sg = << "-" >>)
  /\ IF d.exp + scale >= 0
     THEN StripZeros(d.coeff \o Zeros(d.exp + scale)) = StripZeros(ds)
     ELSE StripZeros(d.coeff) = StripZeros(ds \o Zeros(0 - (d.exp + scale)))

Parsed == dres.exc # "unset"

\* The amount dparts was written for.
ParsedRight ==
  dres.ok /\ IsNumber(dres.val, dparts.sign, Flatten(dparts.groups) \o dparts.frac,
                      Len(dparts.frac))

----------------------------------------------------------------------------
(* C1.                                                                     *)

RECURSIVE MappedRows(_, _)
\* The YNAB rows of the source rows rs that map without an exception, in
\* the order of rs.
MappedRows(rs, a) ==
  IF rs = << >> THEN << >>
  ELSE LET c == convert_row(rs[Len(rs)], a.date_field, a.payee_field,
                            a.product_in_memo)
           before == MappedRows(SubSeq(rs, 1, Len(rs) - 1), a)
       IN IF c.ok THEN Append(before, c.val) ELSE before

Warnings == SelectSeq(stderr, LAMBDA m : m.kind = "warning")

HeaderLine ==
  << "D","a","t","e",",","P","a","y","e","e",",","M","e","m","o",",",
     "A","m","o","u","n","t","\r",NL >>

\* C1: the rows converted so far are the source rows consumed so far that
\* map without an exception, in their order, and every other consumed row
\* gave one warning; the conversion stops at no row; and a finished run has
\* written the header line and then one line per converted row, in order.
C1_OneLinePerMappedRow ==
  /\ out = MappedRows(SubSeq(rows, 1, i), args)
  /\ Len(out) + Len(Warnings) = i
  /\ pc \in {"write", "done"} => i = Len(rows)
  /\ pc = "done" =>
       /\ written = HeaderLine \o Flatten([k \in 1..Len(out) |-> csv_line(out[k])])
       /\ Count(written, NL) = 1 + Len(out)

\* A run is over in which the first row was skipped and the second converted.
C1_Witness ==
  /\ pc = "done"
  /\ Len(rows) = 2
  /\ Len(Warnings) = 1
  /\ ~convert_row(rows[1], args.date_field, args.payee_field,
                  args.product_in_memo).ok
  /\ Len(out) = 1

----------------------------------------------------------------------------
(* C2.                                                                     *)

\* YYYY-MM-DD
IsDateForm(t) ==
  /\ Len(t) = 10
  /\ \A k \in {1, 2, 3, 4, 6, 7, 9, 10} : t[k] \in Digits
  /\ t[5] = "-" /\ t[8] = "-"

\* An optional sign, digits, a point and two digits.
IsAmountForm(t) ==
  LET u == IF t # << >> /\ Head(t) \in {"-", "+"} THEN Tail(t) ELSE t IN
  /\ Len(u) >= 4
  /\ u[Len(u) - 2] = "."
  /\ \A k \in 1..Len(u) : k # Len(u) - 2 => u[k] \in Digits

\* C2: every emitted row has a Date of the form YYYY-MM-DD and an Amount
\* that is a signed numeral with two fraction digits.
C2_RowsWellFormed ==
  \A k \in 1..Len(out) : IsDateForm(out[k][1]) /\ IsAmountForm(out[k][4])

----------------------------------------------------------------------------
(* C3.                                                                     *)

\* The required columns that the parsed header does not name.
Absent ==
  {c \in {args.date_field, Belopp, args.payee_field} :
     \A j \in 1..Len(fieldnames.names) : fieldnames.names[j] # c}

ExitCode == IF pc = "done" THEN 0 ELSE IF pc \in {"fatal", "crashed"} THEN 1 ELSE -1

\* C3: a run is fatal for missing columns exactly when a required column
\* is absent from the parsed header; the exit is nonzero, the message lists
\* the absent columns and the columns found, and then no row was mapped and
\* no output was opened or written.
C3_MissingColumnIsFatal ==
  /\ pc = "fatal" =>
       /\ Absent # {}
       /\ ExitCode # 0
       /\ Len(stderr) = 1
       /\ stderr[1].kind = "fatal"
       /\ stderr[1].missing = Absent
       /\ stderr[1].found = fieldnames.names
       /\ i = 0 /\ out = << >> /\ rows = << >>
       /\ out_f = "none" /\ closed = {} /\ written = << >>
  /\ (pc \in {"convert", "write", "done"} \/ i > 0 \/ out_f # "none") =>
       fieldnames.some /\ Absent = {}

\* A run ended for two missing columns.
C3_Witness ==
  /\ pc = "fatal"
  /\ Absent = {Bokforingsdag, Beskrivning}
  /\ Len(lines) >= 2

----------------------------------------------------------------------------
(* C5.                                                                     *)

\* The memo the claim describes for a source row.
MemoClaimed(r, flag) ==
  LET ref  == clean_text(Get(r, Referens))
      desc == clean_text(Get(r, Beskrivning))
      prod == clean_text(Get(r, Produkt))
      withRef  == ref # << >> /\ ref # desc
      withProd == flag /\ prod # << >>
      bracket  == << "[" >> \o prod \o << "]" >>
  IN IF withRef /\ withProd THEN ref \o << " ", "|", " " >> \o bracket
     ELSE IF withRef THEN ref
     ELSE IF withProd THEN bracket
     ELSE << >>

\* C5: the memo of a row that is mapped is the reference, when it is not
\* empty and differs from the description, then the product in brackets,
\* when the flag is set and the product is not empty, joined by " | ".
C5_MemoComposition ==
  [][(pc = "convert" /\ i' = i + 1 /\ Len(out') = Len(out) + 1) =>
       out'[Len(out')][3] = MemoClaimed(rows[i + 1], args.product_in_memo)]_vars

\* A row with a reference, another description and a product was mapped
\* with the flag set.
C5_Witness ==
  /\ args.product_in_memo
  /\ \E k \in 1..Len(out) :
       out[k][3] = << "A", ",", " ", "B", " ", "|", " ", "[", "K", "o", "r", "t", "]" >>

----------------------------------------------------------------------------
(* C6.                                                                     *)

\* The 1-based positions of the lines that hold "Belopp" and also
\* "Beskrivning" or "Referens".
Matching ==
  {k \in 1..Len(lines) :
     Contains(Belopp, lines[k])
       /\ (Contains(Beskrivning, lines[k]) \/ Contains(Referens, lines[k]))}

----------------------------------------------------------------------------
(* C7.                                                                     *)

\* C7: sniff_delimiter never raises on a sample main() hands it and
\* answers "," or ";".
C7_SnifferReturnsDelimiter ==
  /\ ~(pc = "crashed" /\ exc = "IndexError")
  /\ pc \in {"reader", "convert", "write", "done", "fatal"} => delim \in {",", ";"}

----------------------------------------------------------------------------
(* C8.                                                                     *)

RECURSIVE FirstDecoding(_, _, _)
\* The text of the first of the encodings encs, from the k-th on, that
\* decodes bs, and the lossy UTF-8 text when none does.
FirstDecoding(bs, encs, k) ==
  IF k > Len(encs) THEN utf8(bs, "replace").val
  ELSE IF encs[k] \in KnownEncodings /\ decode(bs, encs[k]).ok
       THEN decode(bs, encs[k]).val
       ELSE FirstDecoding(bs, encs, k + 1)

\* C8: the loader returns the text of the first encoding that decodes,
\* the forced one first, and fails on I/O errors only.
C8_LoaderReturnsText ==
  [][/\ (pc \in {"load_open", "load_read"} /\ pc' = "crashed") => exc' = "OSError"
     /\ (pc = "load_read" /\ pc' = "locate") =>
          raw' = FirstDecoding(bytes,
                   (IF args.encoding # "" THEN << args.encoding >> ELSE << >>)
                     \o << "utf-8-sig", "utf-8", "cp1252", "iso-8859-1" >>, 1)]_vars

----------------------------------------------------------------------------
(* C9.                                                                     *)

\* C9: when a run is over no input handle is open and the output file, if
\* one was opened, is closed; standard output is never closed.
C9_HandlesClosed ==
  /\ "stdout" \notin closed
  /\ inOpen \in {0, 1}
  /\ pc \in {"done", "fatal", "crashed"} =>
       /\ inOpen = 0
       /\ out_f = "file" => "file" \in closed
  /\ (args.output = << "-" >> \/ LowerAll(args.output) = << "s","t","d","o","u","t" >>)
       => out_f # "file"

\* A write to the named output file raised after the header was written.
C9_Witness ==
  /\ pc = "crashed"
  /\ out_f = "file"
  /\ "file" \in closed
  /\ w >= 1
  /\ inOpened >= 2

----------------------------------------------------------------------------
(* C10.                                                                    *)

\* The row has no amount: no key "Belopp", or no value under it.
NoAmount(r) == Belopp \notin DOMAIN r \/ ~r[Belopp].some

\* The date of the row can be read.
DateReads(r, a) ==
  parse_date(IF Truthy(Get(r, a.date_field)) THEN Get(r, a.date_field)
             ELSE Get(r, Bokforingsdag)).ok

\* C10: a row without an amount whose date reads is emitted, with the
\* amount 0.00.
C10_MissingAmountIsZero ==
  [][(pc = "convert" /\ i' = i + 1 /\ NoAmount(rows[i + 1])
        /\ DateReads(rows[i + 1], args)) =>
       /\ Len(out') = Len(out) + 1
       /\ out'[Len(out')][4] = << "0", ".", "0", "0" >>]_vars

====
